---- MODULE Spec2Model ----
(***************************************************************************)
(* Model of the Synth web synthesizer: the Synthesizer component           *)
(* (src/src/components/Synthesizer.tsx), the Knob component                *)
(* (src/src/components/Knob.tsx) and the preset mutations/queries          *)
(* (src/unnamed/part_000, the convex "synth" module).                      *)
(*                                                                         *)
(* Units.  Every numeric parameter is held in hundredths (the Knob step is *)
(* 0.01): 0.5 is 50, 440 Hz is 44000.  Times (ctx.currentTime, envelope    *)
(* durations, oscillator stop times) are hundredths of a second.  Gain     *)
(* values on an AudioParam timeline are held in 1/10000: volume v (in      *)
(* hundredths) is the gain 100*v, and volume*sustain is the plain product. *)
(***************************************************************************)
EXTENDS Integers, Sequences, FiniteSets, TLC

VARIABLES
    params,         \* useState<SynthParams>           Synthesizer.tsx:58
    presetName,     \* useState('')                    Synthesizer.tsx:59
    isPlaying,      \* useState(false)                 Synthesizer.tsx:60
    oscillatorRef,  \* useRef<OscillatorNode|null>     Synthesizer.tsx:63
    gainNodeRef,    \* useRef<GainNode|null>           Synthesizer.tsx:64
    filterNodeRef,  \* useRef<BiquadFilterNode|null>   Synthesizer.tsx:65
    voices,         \* every node graph playNote has created in the AudioContext
    now,            \* ctx.currentTime
    presets,        \* the "synthPresets" table        schema.ts:6
    nextId,         \* next document id the database hands out
    edits,          \* number of parameter changes made so far (bounded)
    lastOp,         \* the last operation and its outcome (history)
    impulse,        \* the buffer the last createImpulseResponse call filled
    pressedKeys,    \* Keyboard: useState<Set<string>>    Synthesizer.tsx:480
    activeNote,     \* Keyboard: useState<string|null>    Synthesizer.tsx:481
    held,           \* the keys of the computer keyboard that are down
    shift           \* Shift/CapsLock: letters are reported in upper case

vars == <<params, presetName, isPlaying, oscillatorRef, gainNodeRef, filterNodeRef,
          voices, now, presets, nextId, edits, lastOp, impulse,
          pressedKeys, activeNote, held, shift>>

keyboardVars == <<pressedKeys, activeNote, held, shift>>

(***************************************************************************)
(* Bounds of the model.                                                    *)
(***************************************************************************)
MaxTime == 20      \* the clock stops advancing here
TickStep == 5      \* the clock is observed every TickStep hundredths of a second
MaxVoices == 2     \* playNote calls in a behaviour
MaxThrows == 1     \* playNote calls that throw in a behaviour
MaxEdits == 1      \* parameter changes in a behaviour
MaxPresets == 2    \* documents ever inserted into the table
MaxSampleRate == 2 \* ctx.sampleRate is 1..MaxSampleRate samples per second

Null == 0

(***************************************************************************)
(* SynthParams                                                             *)
(***************************************************************************)
defaultParams ==
    [oscillator |-> [type |-> "sawtooth", frequency |-> 44000, detune |-> 0],
     filter     |-> [type |-> "lowpass", frequency |-> 200000, Q |-> 100],
     envelope   |-> [attack |-> 10, decay |-> 30, sustain |-> 70, release |-> 50],
     effects    |-> [reverb |-> 20, delay |-> 10, distortion |-> 0],
     volume     |-> 50]

OscillatorTypes == {"sine", "square", "sawtooth", "triangle"}
FilterTypes == {"lowpass", "highpass", "bandpass"}

(***************************************************************************)
(* AudioParam automation timeline (Web Audio): a sequence of events kept   *)
(* in time order; an event inserted at a time already present goes after   *)
(* the events of that time.                                                *)
(***************************************************************************)
RECURSIVE CountUpTo(_, _)
CountUpTo(events, t) ==
    IF events = <<>> \/ Head(events).time > t THEN 0
    ELSE 1 + CountUpTo(Tail(events), t)

InsertEvent(events, e) ==
    LET k == CountUpTo(events, e.time)
    IN  SubSeq(events, 1, k) \o <<e>> \o SubSeq(events, k + 1, Len(events))

setValueAtTime(events, value, time) ==
    InsertEvent(events, [type |-> "set", value |-> value, time |-> time])

linearRampToValueAtTime(events, value, time) ==
    InsertEvent(events, [type |-> "ramp", value |-> value, time |-> time])

\* cancelScheduledValues(t) removes every event whose time is >= t
cancelScheduledValues(events, t) ==
    SelectSeq(events, LAMBDA e : e.time < t)

\* the value the timeline gives the parameter at time t
ValueAtTime(events, defaultValue, t) ==
    LET k == CountUpTo(events, t)
    IN  IF k = 0 THEN defaultValue
        ELSE IF k < Len(events) /\ events[k + 1].type = "ramp"
        THEN events[k].value
             + ((events[k + 1].value - events[k].value) * (t - events[k].time))
               \div (events[k + 1].time - events[k].time)
        ELSE events[k].value

GainDefault == 10000

(***************************************************************************)
(* The node graph playNote builds.                                         *)
(***************************************************************************)
\* assigning an enumerated attribute (oscillator.type, filter.type): a value
\* outside the enumeration is ignored and the node keeps its default
AssignEnum(value, valid, default) ==
    IF value \in valid THEN value ELSE default

\* a variant of EnvelopeEvents whose sustain level is not scaled by the volume
EnvelopeEventsAbsoluteSustain(P, t) ==
    linearRampToValueAtTime(
        linearRampToValueAtTime(
            setValueAtTime(<<>>, 0, t),
            100 * P.volume, t + P.envelope.attack),
        100 * P.envelope.sustain,
        t + P.envelope.attack + P.envelope.decay)

\* lines 144-150: the attack/decay schedule on gainNode.gain
EnvelopeEvents(P, t) ==
    linearRampToValueAtTime(
        linearRampToValueAtTime(
            setValueAtTime(<<>>, 0, t),
            100 * P.volume, t + P.envelope.attack),
        P.volume * P.envelope.sustain,
        t + P.envelope.attack + P.envelope.decay)

\* a variant of ConnectList that always routes the filter through the
\* distortion stage (with a neutral curve when the amount is 0)
ConnectListThroughDistortion(P) ==
    << <<"oscillator", "filter">>, <<"filter", "distortion">>, <<"distortion", "gain">>,
       <<"gain", "master">> >>
    \o (IF P.effects.reverb > 0
        THEN << <<"gain", "reverb">>, <<"reverb", "master">> >>
        ELSE <<>>)
    \o (IF P.effects.delay > 0
        THEN << <<"gain", "delay">>, <<"delay", "delayGain">>,
                <<"delayGain", "delay">>, <<"delayGain", "master">> >>
        ELSE <<>>)
    \o << <<"master", "destination">> >>

\* a variant of ConnectList that always wires the delay send and lets the
\* feedback gain (the delay amount) weight it
ConnectListDelayAlways(P) ==
    <<  <<"oscillator", "filter">> >>
    \o (IF P.effects.distortion > 0
        THEN << <<"filter", "distortion">>, <<"distortion", "gain">> >>
        ELSE << <<"filter", "gain">> >>)
    \o << <<"gain", "master">> >>
    \o (IF P.effects.reverb > 0
        THEN << <<"gain", "reverb">>, <<"reverb", "master">> >>
        ELSE <<>>)
    \o << <<"gain", "delay">>, <<"delay", "delayGain">>,
          <<"delayGain", "delay">>, <<"delayGain", "master">> >>
    \o << <<"master", "destination">> >>

\* a variant of ConnectList that connects the master gain to the output
\* before the voice is wired into it
ConnectListOutputFirst(P) ==
    << <<"master", "destination">>, <<"oscillator", "filter">> >>
    \o (IF P.effects.distortion > 0
        THEN << <<"filter", "distortion">>, <<"distortion", "gain">> >>
        ELSE << <<"filter", "gain">> >>)
    \o << <<"gain", "master">> >>
    \o (IF P.effects.reverb > 0
        THEN << <<"gain", "reverb">>, <<"reverb", "master">> >>
        ELSE <<>>)
    \o (IF P.effects.delay > 0
        THEN << <<"gain", "delay">>, <<"delay", "delayGain">>,
                <<"delayGain", "delay">>, <<"delayGain", "master">> >>
        ELSE <<>>)

\* lines 171-198: the connect calls, in program order
ConnectList(P) ==
    <<  <<"oscillator", "filter">> >>
    \o (IF P.effects.distortion > 0
        THEN << <<"filter", "distortion">>, <<"distortion", "gain">> >>
        ELSE << <<"filter", "gain">> >>)
    \o << <<"gain", "master">> >>
    \o (IF P.effects.reverb > 0
        THEN << <<"gain", "reverb">>, <<"reverb", "master">> >>
        ELSE <<>>)
    \o (IF P.effects.delay > 0
        THEN << <<"gain", "delay">>, <<"delay", "delayGain">>,
                <<"delayGain", "delay">>, <<"delayGain", "master">> >>
        ELSE <<>>)
    \o << <<"master", "destination">> >>

\* the edges made by the first k connect calls
Connected(P, k) ==
    {ConnectList(P)[i] : i \in 1..k}

\* a variant of ConfigureOscillator that takes the stored frequency, not the
\* argument of playNote
ConfigureOscillatorStoredFrequency(P, frequency) ==
    [type      |-> AssignEnum(P.oscillator.type, OscillatorTypes, "sine"),
     frequency |-> P.oscillator.frequency,
     detune    |-> P.oscillator.detune]

\* lines 134-137: the oscillator's settings
ConfigureOscillator(P, frequency) ==
    [type      |-> AssignEnum(P.oscillator.type, OscillatorTypes, "sine"),
     frequency |-> frequency,
     detune    |-> P.oscillator.detune]

\* lines 139-142: the filter's settings
ConfigureFilter(P) ==
    [type      |-> AssignEnum(P.filter.type, FilterTypes, "lowpass"),
     frequency |-> P.filter.frequency,
     Q         |-> P.filter.Q]

\* lines 125-198: the nodes of one voice, configured from the params of the
\* render in which playNote was created, with the first k connect calls made
BuildGraph(P, frequency, t, k) ==
    [oscillator |-> ConfigureOscillator(P, frequency),
     filter     |-> ConfigureFilter(P),
     gain       |-> EnvelopeEvents(P, t),
     reverb     |-> [duration |-> 200, decay |-> P.effects.reverb * 10],
     delay      |-> [delayTime |-> 30],
     delayGain  |-> 100 * P.effects.delay,
     distortion |-> IF P.effects.distortion > 0
                    THEN [curve |-> <<P.effects.distortion * 100>>, oversample |-> "4x"]
                    ELSE [curve |-> <<>>, oversample |-> "none"],
     master     |-> 100 * P.volume,
     edges      |-> Connected(P, k),
     started    |-> <<>>,      \* <<t>> once oscillator.start() has run at t
     stop       |-> <<>>,      \* <<t>> once oscillator.stop(t) is scheduled
     built      |-> t,
     snapshot   |-> P]

\* line 206: oscillator.start()
StartOscillator(v, t) ==
    [v EXCEPT !.started = <<t>>]

\* the oscillator of v produces signal at time t
Sounding(v, t) ==
    /\ v.started # <<>>
    /\ v.started[1] <= t
    /\ (v.stop = <<>> \/ t < v.stop[1])

\* the graph of v feeds ctx.destination
Wired(v) ==
    <<"master", "destination">> \in v.edges

\* the gain the render thread applies to v at time t
ScheduledGain(v, t) ==
    ValueAtTime(v.gain, GainDefault, t)

\* line 216: gainNodeRef.current.gain.value read by the control thread at t.
\* The getter returns the AudioParam's current value, which only the render
\* thread updates, once per render quantum, from the timeline (Web Audio API,
\* "Computation of Value"); ctx.currentTime advances with the same quanta.
\* While ctx.currentTime is still the time the node was created at, no
\* quantum has been rendered for it and the getter returns the default value
\* of GainNode.gain, 1.
GainValue(v, t) ==
    IF t = v.built THEN GainDefault ELSE ScheduledGain(v, t)

(***************************************************************************)
(* stopNote, lines 210-225                                                 *)
(***************************************************************************)
\* line 211: the guard (audioContextRef.current is set from mount on)
StopNoteGuard ==
    oscillatorRef # Null /\ gainNodeRef # Null

\* line 213: the release time is read from the current params
ReleaseTime ==
    params.envelope.release

\* lines 215-217: the release schedule on the gain the ref points to
ReleaseEvents(events, value, t, releaseTime) ==
    linearRampToValueAtTime(
        setValueAtTime(cancelScheduledValues(events, t), value, t),
        0, t + releaseTime)

\* line 219: oscillatorRef.current.stop(ctx.currentTime + releaseTime)
StopTime(t, releaseTime) ==
    t + releaseTime

\* a variant of ReleasedVoices that forgets line 219, the oscillator's stop
ReleasedVoicesWithoutStop ==
    [voices EXCEPT ![gainNodeRef].gain =
        ReleaseEvents(@, GainValue(voices[gainNodeRef], now), now, ReleaseTime)]

\* lines 215-219 on the voices the refs point to
ReleasedVoices ==
    LET g1 == [voices EXCEPT ![gainNodeRef].gain =
                  ReleaseEvents(@, GainValue(voices[gainNodeRef], now), now, ReleaseTime)]
    IN  [g1 EXCEPT ![oscillatorRef].stop = <<StopTime(now, ReleaseTime)>>]

\* a variant of AfterStopNote whose guard is missing: with no voice referenced
\* it schedules the stop of the most recent oscillator again
AfterStopNoteUnguarded ==
    IF StopNoteGuard THEN ReleasedVoices
    ELSE IF voices = <<>> THEN voices
    ELSE [voices EXCEPT ![Len(voices)].stop = <<StopTime(now, ReleaseTime)>>]

\* the voices after stopNote() has run, whatever its guard said
AfterStopNote ==
    IF StopNoteGuard THEN ReleasedVoices ELSE voices

(***************************************************************************)
(* Inputs                                                                  *)
(***************************************************************************)
\* the frequency the keyboard passes to onNoteOn (notes table, line 464: C)
Frequencies == {26163}

\* the Knob instances of the Synthesizer, lines 282-398 (min and max in
\* hundredths); Volume writes params.volume directly (line 397)
Knobs ==
    { [label |-> "Frequency",  category |-> "oscillator", param |-> "frequency",  min |-> 2000,   max |-> 200000],
      [label |-> "Detune",     category |-> "oscillator", param |-> "detune",     min |-> -10000, max |-> 10000],
      [label |-> "Cutoff",     category |-> "filter",     param |-> "frequency",  min |-> 2000,   max |-> 2000000],
      [label |-> "Resonance",  category |-> "filter",     param |-> "Q",          min |-> 10,     max |-> 3000],
      [label |-> "Attack",     category |-> "envelope",   param |-> "attack",     min |-> 1,      max |-> 200],
      [label |-> "Decay",      category |-> "envelope",   param |-> "decay",      min |-> 1,      max |-> 200],
      [label |-> "Sustain",    category |-> "envelope",   param |-> "sustain",    min |-> 0,      max |-> 100],
      [label |-> "Release",    category |-> "envelope",   param |-> "release",    min |-> 1,      max |-> 300],
      [label |-> "Reverb",     category |-> "effects",    param |-> "reverb",     min |-> 0,      max |-> 100],
      [label |-> "Delay",      category |-> "effects",    param |-> "delay",      min |-> 0,      max |-> 100],
      [label |-> "Distortion", category |-> "effects",    param |-> "distortion", min |-> 0,      max |-> 100],
      [label |-> "Volume",     category |-> "volume",     param |-> "volume",     min |-> 0,      max |-> 100] }

\* startY - e.clientY of a mouse move, in pixels
DeltaYs == {-100, 100}

\* the value prop of a Knob
KnobValue(k) ==
    IF k.category = "volume" THEN params.volume ELSE params[k.category][k.param]

Max(a, b) == IF a >= b THEN a ELSE b
Min(a, b) == IF a <= b THEN a ELSE b

\* Knob.tsx lines 31-35.  sensitivity = (max - min) / 200, so the unrounded
\* value is held in 1/200 of a hundredth; Math.round(x / step) * step with
\* step = 0.01 rounds to the nearest hundredth, halves upwards.
KnobNewValue(k, startValue, deltaY) ==
    LET raw     == 200 * startValue + deltaY * (k.max - k.min)
        clamped == Max(200 * k.min, Min(200 * k.max, raw))
    IN  (clamped + 100) \div 200

\* updateParam, lines 227-235
updateParam(P, category, param, value) ==
    [P EXCEPT ![category][param] = value]

\* line 397: setParams(prev => ({ ...prev, volume: value }))
setVolume(P, value) ==
    [P EXCEPT !.volume = value]

\* loadPreset, lines 251-259
loadPresetParams(preset) ==
    [oscillator |-> preset.oscillator,
     filter     |-> preset.filter,
     envelope   |-> preset.envelope,
     effects    |-> preset.effects,
     volume     |-> preset.volume]

(***************************************************************************)
(* The preset store (convex "synth" module) and its callers                *)
(***************************************************************************)
\* identities getAuthUserId can return; NoUser is null
Users == {"alice", "bob"}
NoUser == "null"
\* the signed-in user of the page (the Synthesizer renders inside <Authenticated>)
UIUser == "alice"

\* preset names, as sequences of characters
Names == { <<>>, <<" ">>, <<"a">> }

\* String.prototype.trim
RECURSIVE TrimLeft(_)
TrimLeft(s) ==
    IF s # <<>> /\ Head(s) = " " THEN TrimLeft(Tail(s)) ELSE s

RECURSIVE TrimRight(_)
TrimRight(s) ==
    IF s # <<>> /\ s[Len(s)] = " " THEN TrimRight(SubSeq(s, 1, Len(s) - 1)) ELSE s

Trim(s) == TrimRight(TrimLeft(s))

\* argument records a caller outside the page sends to savePreset: the
\* validator (part_000 lines 21-45) accepts any string and any number
OutOfRangeParams ==
    [oscillator |-> [type |-> "noise", frequency |-> 44000, detune |-> 0],
     filter     |-> [type |-> "lowpass", frequency |-> 200000, Q |-> 3500],
     envelope   |-> [attack |-> 10, decay |-> 30, sustain |-> 70, release |-> 50],
     effects    |-> [reverb |-> 20, delay |-> 10, distortion |-> 0],
     volume     |-> 150]

ForeignParams == {OutOfRangeParams}

\* a variant of PresetDoc that leaves the volume out of the saved fields, so
\* the document gets the default volume
PresetDocWithoutVolume(id, userId, name, P) ==
    [_id        |-> id,
     userId     |-> userId,
     name       |-> name,
     oscillator |-> P.oscillator,
     filter     |-> P.filter,
     envelope   |-> P.envelope,
     effects    |-> P.effects,
     volume     |-> defaultParams.volume]

\* part_000 lines 52-55: the inserted document
PresetDoc(id, userId, name, P) ==
    [_id        |-> id,
     userId     |-> userId,
     name       |-> name,
     oscillator |-> P.oscillator,
     filter     |-> P.filter,
     envelope   |-> P.envelope,
     effects    |-> P.effects,
     volume     |-> P.volume]

\* a variant of getPresets that does not filter by the by_user index
getPresetsOfEveryUser(userId) ==
    IF userId = NoUser THEN <<>> ELSE presets

\* getPresets, part_000 lines 5-18
getPresets(userId) ==
    IF userId = NoUser THEN <<>>
    ELSE SelectSeq(presets, LAMBDA d : d.userId = userId)

\* ctx.db.get
DbGet(id) ==
    SelectSeq(presets, LAMBDA d : d._id = id)

(***************************************************************************)
(* createImpulseResponse, lines 85-100.  A voice records the arguments of   *)
(* the call (BuildGraph, field reverb); the samples the call writes are    *)
(* modelled here.  A sample is held as a numerator over buffer.scale.      *)
(***************************************************************************)
\* reverb amounts whose decay exponent (amount * 10) is a whole number
ReverbAmounts == {0, 10, 20, 30}

\* Math.random() * 2 - 1, in halves: a value of [-1, 1)
Randoms == {-2, 1}

RECURSIVE Pow(_, _)
Pow(b, n) ==
    IF n = 0 THEN 1 ELSE b * Pow(b, n - 1)

\* line 96: Math.pow(1 - i / length, decay) is
\* EnvelopeNum(i, length, decay) / Pow(length, decay \div 100); decay is in
\* hundredths
EnvelopeNum(i, length, decay) ==
    Pow(length - i, decay \div 100)

\* no buffer has been built
NoImpulse ==
    [length |-> 0, decay |-> 0, scale |-> 1, channels |-> <<>>]

\* lines 85-100; rnd[c][i + 1] is the random draw for sample i of channel c
createImpulseResponse(duration, decay, sampleRate, rnd) ==
    LET length == (sampleRate * duration) \div 100
    IN  [length   |-> length,
         decay    |-> decay,
         scale    |-> 2 * Pow(length, decay \div 100),
         channels |-> [c \in 1..2 |->
                          [j \in 1..length |->
                              rnd[c][j] * EnvelopeNum(j - 1, length, decay)]]]

(***************************************************************************)
(* The Keyboard component, lines 456-583                                   *)
(***************************************************************************)
\* lines 463-477: two of the thirteen entries of the notes table
Notes ==
    { [note |-> "C", frequency |-> 26163, key |-> "a"],
      [note |-> "D", frequency |-> 29366, key |-> "s"] }

\* activeNote = null
NoNote == "null"

\* keys of the computer keyboard: two mapped letters and an unmapped one
PhysicalKeys == {"a", "s", "z"}

\* KeyboardEvent.key of a letter key: upper case under Shift or CapsLock
EventKey(k, sh) ==
    IF ~sh THEN k
    ELSE CASE k = "a" -> "A"
           [] k = "s" -> "S"
           [] k = "z" -> "Z"

\* String.prototype.toLowerCase
toLowerCase(key) ==
    CASE key = "A" -> "a"
      [] key = "S" -> "s"
      [] key = "Z" -> "z"
      [] OTHER -> key

\* lines 497 and 507: notes.find(n => n.key === e.key.toLowerCase())
FindNote(key) ==
    {n \in Notes : n.key = toLowerCase(key)}

(***************************************************************************)
(* Initial state: the component has mounted (defaultParams, no voice, the  *)
(* AudioContext created by the mount effect, lines 75-82).                 *)
(***************************************************************************)
Op(op, result, arg) == [op |-> op, result |-> result, arg |-> arg]

\* the outcome of a call of a mutation: arg is the document id it is about,
\* user the identity getAuthUserId returned for the caller
StoreOp(op, result, arg, user) ==
    [op |-> op, result |-> result, arg |-> arg, user |-> user]

\* the component right after mount, over a table holding store
Mounted(store) ==
    /\ params = defaultParams
    /\ presetName = <<>>
    /\ isPlaying = FALSE
    /\ oscillatorRef = Null
    /\ gainNodeRef = Null
    /\ filterNodeRef = Null
    /\ voices = <<>>
    /\ now = 0
    /\ presets = store
    /\ nextId = Len(store) + 1
    /\ edits = 0
    /\ lastOp = Op("mount", "ok", 0)
    /\ impulse = NoImpulse
    /\ pressedKeys = {}
    /\ activeNote = NoNote
    /\ held = {}
    /\ shift = FALSE

(***************************************************************************)
(* Synthesizer: playNote and stopNote                                      *)
(***************************************************************************)
\* playNote(frequency), lines 116-208, every call succeeding
PlayNote(frequency) ==
    /\ Len(voices) < MaxVoices
    /\ voices' = Append(AfterStopNote,
                        StartOscillator(
                            BuildGraph(params, frequency, now, Len(ConnectList(params))),
                            now))
    /\ oscillatorRef' = Len(voices) + 1
    /\ gainNodeRef' = Len(voices) + 1
    /\ filterNodeRef' = Len(voices) + 1
    /\ isPlaying' = TRUE
    /\ lastOp' = Op("playNote", "ok", frequency)
    /\ UNCHANGED <<keyboardVars, impulse, params, presetName, now, presets, nextId, edits>>

\* playNote(frequency) when a Web Audio call of lines 125-198 throws: stopNote()
\* (line 120) has run, the first k connect calls have been made, and nothing
\* after the throwing call runs
PlayNoteThrows(frequency, k) ==
    /\ Len(voices) < MaxVoices
    /\ Len(SelectSeq(voices, LAMBDA v : v.started = <<>>)) < MaxThrows
    /\ k \in 0..(Len(ConnectList(params)) - 1)
    /\ voices' = Append(AfterStopNote, BuildGraph(params, frequency, now, k))
    /\ oscillatorRef' = IF StopNoteGuard THEN Null ELSE oscillatorRef
    /\ gainNodeRef' = IF StopNoteGuard THEN Null ELSE gainNodeRef
    /\ filterNodeRef' = IF StopNoteGuard THEN Null ELSE filterNodeRef
    /\ isPlaying' = IF StopNoteGuard THEN FALSE ELSE isPlaying
    /\ lastOp' = Op("playNote", "error", frequency)
    /\ UNCHANGED <<keyboardVars, impulse, params, presetName, now, presets, nextId, edits>>

\* a variant of StopNote that forgets line 222, filterNodeRef.current = null
StopNoteKeepsFilterRef ==
    /\ voices' = AfterStopNote
    /\ oscillatorRef' = IF StopNoteGuard THEN Null ELSE oscillatorRef
    /\ gainNodeRef' = IF StopNoteGuard THEN Null ELSE gainNodeRef
    /\ filterNodeRef' = filterNodeRef
    /\ isPlaying' = IF StopNoteGuard THEN FALSE ELSE isPlaying
    /\ lastOp' = Op("stopNote", IF StopNoteGuard THEN "released" ELSE "noop", 0)
    /\ UNCHANGED <<keyboardVars, impulse, params, presetName, now, presets, nextId, edits>>

\* stopNote(), lines 210-225
StopNote ==
    /\ voices' = AfterStopNote
    /\ oscillatorRef' = IF StopNoteGuard THEN Null ELSE oscillatorRef
    /\ gainNodeRef' = IF StopNoteGuard THEN Null ELSE gainNodeRef
    /\ filterNodeRef' = IF StopNoteGuard THEN Null ELSE filterNodeRef
    /\ isPlaying' = IF StopNoteGuard THEN FALSE ELSE isPlaying
    /\ lastOp' = Op("stopNote", IF StopNoteGuard THEN "released" ELSE "noop", 0)
    /\ UNCHANGED <<keyboardVars, impulse, params, presetName, now, presets, nextId, edits>>

\* the render clock advances
Tick ==
    /\ now + TickStep <= MaxTime
    /\ now' = now + TickStep
    /\ lastOp' = Op("tick", "ok", 0)
    /\ UNCHANGED <<keyboardVars, impulse, params, presetName, isPlaying, oscillatorRef, gainNodeRef,
                   filterNodeRef, voices, presets, nextId, edits>>

(***************************************************************************)
(* Parameter changes                                                       *)
(***************************************************************************)
\* a drag of Knob k: handleMouseDown (Knob.tsx 21-26) records the value as
\* startValue, handleMouseMove (28-36) calls onChange with the new value
KnobDrag(k, deltaY) ==
    /\ edits < MaxEdits
    /\ LET value == KnobNewValue(k, KnobValue(k), deltaY)
       IN  params' = IF k.category = "volume"
                     THEN setVolume(params, value)
                     ELSE updateParam(params, k.category, k.param, value)
    /\ edits' = edits + 1
    /\ lastOp' = Op("knob", "ok", 0)
    /\ UNCHANGED <<keyboardVars, impulse, presetName, isPlaying, oscillatorRef, gainNodeRef, filterNodeRef,
                   voices, now, presets, nextId>>

\* the waveform <select>, lines 271-280
SelectWaveform(type) ==
    /\ edits < MaxEdits
    /\ params' = updateParam(params, "oscillator", "type", type)
    /\ edits' = edits + 1
    /\ lastOp' = Op("select", "oscillator", 0)
    /\ UNCHANGED <<keyboardVars, impulse, presetName, isPlaying, oscillatorRef, gainNodeRef, filterNodeRef,
                   voices, now, presets, nextId>>

\* the filter type <select>, lines 305-313
SelectFilterType(type) ==
    /\ edits < MaxEdits
    /\ params' = updateParam(params, "filter", "type", type)
    /\ edits' = edits + 1
    /\ lastOp' = Op("select", "filter", 0)
    /\ UNCHANGED <<keyboardVars, impulse, presetName, isPlaying, oscillatorRef, gainNodeRef, filterNodeRef,
                   voices, now, presets, nextId>>

\* loadPreset(preset) for the i-th preset the page lists, lines 427-434, 251-259
LoadPreset(i) ==
    /\ edits < MaxEdits
    /\ i \in 1..Len(getPresets(UIUser))
    /\ params' = loadPresetParams(getPresets(UIUser)[i])
    /\ edits' = edits + 1
    /\ lastOp' = Op("loadPreset", "ok", getPresets(UIUser)[i]._id)
    /\ UNCHANGED <<keyboardVars, impulse, presetName, isPlaying, oscillatorRef, gainNodeRef, filterNodeRef,
                   voices, now, presets, nextId>>

(***************************************************************************)
(* Presets                                                                 *)
(***************************************************************************)
\* the name <input>, line 414
SetPresetName(name) ==
    /\ presetName' = name
    /\ name # presetName
    /\ lastOp' = Op("setPresetName", "ok", 0)
    /\ UNCHANGED <<keyboardVars, impulse, params, isPlaying, oscillatorRef, gainNodeRef, filterNodeRef,
                   voices, now, presets, nextId, edits>>

\* a variant of SavePresetHandler without the identity check
SavePresetHandlerWithoutAuth(userId, name, P) ==
    /\ presets' = Append(presets, PresetDoc(nextId, userId, name, P))
    /\ nextId' = nextId + 1
    /\ lastOp' = StoreOp("savePreset", "ok", nextId, userId)

\* the savePreset mutation, part_000 lines 46-56, called by userId
SavePresetHandler(userId, name, P) ==
    IF userId = NoUser
    THEN /\ lastOp' = StoreOp("savePreset", "AuthRequired", 0, userId)
         /\ UNCHANGED <<presets, nextId>>
    ELSE /\ presets' = Append(presets, PresetDoc(nextId, userId, name, P))
         /\ nextId' = nextId + 1
         /\ lastOp' = StoreOp("savePreset", "ok", nextId, userId)

\* a client other than the page calls the mutation
SavePreset(userId, name, P) ==
    /\ nextId <= MaxPresets
    /\ SavePresetHandler(userId, name, P)
    /\ UNCHANGED <<keyboardVars, impulse, params, presetName, isPlaying, oscillatorRef, gainNodeRef,
                   filterNodeRef, voices, now, edits>>

\* handleSavePreset, lines 237-249
HandleSavePreset ==
    /\ nextId <= MaxPresets
    /\ IF Trim(presetName) = <<>>
       THEN /\ lastOp' = Op("handleSavePreset", "noop", 0)
            /\ UNCHANGED <<presets, nextId, presetName>>
       ELSE /\ SavePresetHandler(UIUser, presetName, params)
            /\ presetName' = <<>>
    /\ UNCHANGED <<keyboardVars, impulse, params, isPlaying, oscillatorRef, gainNodeRef, filterNodeRef,
                   voices, now, edits>>

\* a variant of DeletePreset that checks that the document exists but not
\* whose it is
DeletePresetOfAnyOwner(userId, presetId) ==
    /\ IF userId = NoUser
       THEN /\ lastOp' = StoreOp("deletePreset", "AuthRequired", presetId, userId)
            /\ UNCHANGED presets
       ELSE IF DbGet(presetId) = <<>>
       THEN /\ lastOp' = StoreOp("deletePreset", "NotFoundOrUnauthorized", presetId, userId)
            /\ UNCHANGED presets
       ELSE /\ presets' = SelectSeq(presets, LAMBDA d : d._id # presetId)
            /\ lastOp' = StoreOp("deletePreset", "ok", presetId, userId)
    /\ UNCHANGED <<keyboardVars, impulse, params, presetName, isPlaying, oscillatorRef, gainNodeRef,
                   filterNodeRef, voices, now, nextId, edits>>

\* the deletePreset mutation, part_000 lines 59-74, called by userId
DeletePreset(userId, presetId) ==
    /\ IF userId = NoUser
       THEN /\ lastOp' = StoreOp("deletePreset", "AuthRequired", presetId, userId)
            /\ UNCHANGED presets
       ELSE IF DbGet(presetId) = <<>> \/ DbGet(presetId)[1].userId # userId
       THEN /\ lastOp' = StoreOp("deletePreset", "NotFoundOrUnauthorized", presetId, userId)
            /\ UNCHANGED presets
       ELSE /\ presets' = SelectSeq(presets, LAMBDA d : d._id # presetId)
            /\ lastOp' = StoreOp("deletePreset", "ok", presetId, userId)
    /\ UNCHANGED <<keyboardVars, impulse, params, presetName, isPlaying, oscillatorRef, gainNodeRef,
                   filterNodeRef, voices, now, nextId, edits>>

(***************************************************************************)
(* Spec: the Synthesizer playing notes while its parameters change.  The   *)
(* table holds what earlier saves left there (SavedStore is reached from   *)
(* the empty table under StoreSpec) and does not change.                   *)
(***************************************************************************)
\* an in-range parameter set a client has saved
SavedParams ==
    [oscillator |-> [type |-> "square", frequency |-> 22000, detune |-> -5000],
     filter     |-> [type |-> "highpass", frequency |-> 100000, Q |-> 1500],
     envelope   |-> [attack |-> 5, decay |-> 5, sustain |-> 40, release |-> 10],
     effects    |-> [reverb |-> 0, delay |-> 0, distortion |-> 50],
     volume     |-> 80]

SavedStore ==
    << PresetDoc(1, UIUser, <<"a">>, OutOfRangeParams),
       PresetDoc(2, UIUser, <<"a">>, SavedParams) >>

Init == Mounted(SavedStore)

Next ==
    \/ \E f \in Frequencies : PlayNote(f)
    \/ \E f \in Frequencies, k \in 0..10 : PlayNoteThrows(f, k)
    \/ StopNote
    \/ Tick
    \/ \E k \in Knobs, d \in DeltaYs : KnobDrag(k, d)
    \/ \E t \in OscillatorTypes : SelectWaveform(t)
    \/ \E t \in FilterTypes : SelectFilterType(t)
    \/ \E i \in 1..MaxPresets : LoadPreset(i)

Spec == Init /\ [][Next]_vars

\* the audio clock keeps running (the render thread advances ctx.currentTime
\* whatever the page does)
LiveSpec == Spec /\ WF_vars(Tick)

(***************************************************************************)
(* StoreSpec: the preset table from empty, its callers, and the parameter  *)
(* changes of the page; no note is played.                                 *)
(***************************************************************************)
StoreInit == Mounted(<<>>)

StoreNext ==
    \/ \E k \in Knobs, d \in DeltaYs : KnobDrag(k, d)
    \/ \E t \in OscillatorTypes : SelectWaveform(t)
    \/ \E t \in FilterTypes : SelectFilterType(t)
    \/ \E i \in 1..MaxPresets : LoadPreset(i)
    \/ \E n \in Names : SetPresetName(n)
    \/ \E u \in Users \cup {NoUser}, n \in Names, P \in ForeignParams \cup {SavedParams} :
          SavePreset(u, n, P)
    \/ HandleSavePreset
    \/ \E u \in Users \cup {NoUser}, id \in 1..MaxPresets : DeletePreset(u, id)

StoreSpec == StoreInit /\ [][StoreNext]_vars

(***************************************************************************)
(* ImpulseSpec: the impulse responses playNote builds (line 153) for the   *)
(* reverb amounts of ReverbAmounts.                                        *)
(***************************************************************************)
\* line 153: createImpulseResponse(2, params.effects.reverb * 10)
CreateImpulseResponse(reverb, sampleRate, rnd) ==
    /\ impulse' = createImpulseResponse(200, reverb * 10, sampleRate, rnd)
    /\ lastOp' = Op("createImpulseResponse", "ok", reverb)
    /\ UNCHANGED <<keyboardVars, params, presetName, isPlaying, oscillatorRef, gainNodeRef,
                   filterNodeRef, voices, now, presets, nextId, edits>>

ImpulseInit == Mounted(<<>>)

ImpulseNext ==
    \E reverb \in ReverbAmounts, sampleRate \in 1..MaxSampleRate :
        \E rnd \in [1..2 -> [1..(2 * sampleRate) -> Randoms]] :
            CreateImpulseResponse(reverb, sampleRate, rnd)

ImpulseSpec == ImpulseInit /\ [][ImpulseNext]_vars

(***************************************************************************)
(* KeyboardSpec: the Keyboard component driving the Synthesizer through    *)
(* its props (line 404: onNoteOn = playNote, onNoteOff = stopNote).  Each  *)
(* handler runs on the state of the latest render.                         *)
(***************************************************************************)
synthVars == <<voices, oscillatorRef, gainNodeRef, filterNodeRef, isPlaying>>

\* onNoteOff(): the Synthesizer's stopNote, lines 210-225
onNoteOff ==
    /\ voices' = AfterStopNote
    /\ oscillatorRef' = IF StopNoteGuard THEN Null ELSE oscillatorRef
    /\ gainNodeRef' = IF StopNoteGuard THEN Null ELSE gainNodeRef
    /\ filterNodeRef' = IF StopNoteGuard THEN Null ELSE filterNodeRef
    /\ isPlaying' = IF StopNoteGuard THEN FALSE ELSE isPlaying

\* lines 486-487: onNoteOff() then onNoteOn(frequency), the Synthesizer's
\* playNote, whose own stopNote() (line 120) then finds no voice referenced
onNoteOffThenOn(frequency) ==
    /\ voices' = Append(AfterStopNote,
                        StartOscillator(
                            BuildGraph(params, frequency, now, Len(ConnectList(params))),
                            now))
    /\ oscillatorRef' = Len(voices) + 1
    /\ gainNodeRef' = Len(voices) + 1
    /\ filterNodeRef' = Len(voices) + 1
    /\ isPlaying' = TRUE

\* Keyboard.playNote, lines 483-489
KeyboardPlayNote(note) ==
    IF activeNote = note.note
    THEN UNCHANGED <<activeNote, synthVars>>
    ELSE /\ Len(voices) < MaxVoices
         /\ onNoteOffThenOn(note.frequency)
         /\ activeNote' = note.note

\* Keyboard.stopNote, lines 491-494
KeyboardStopNote ==
    /\ onNoteOff
    /\ activeNote' = NoNote

\* handleKeyDown, lines 496-504, for an event with e.key = key
handleKeyDown(key) ==
    IF key \in pressedKeys \/ FindNote(key) = {}
    THEN UNCHANGED <<pressedKeys, activeNote, synthVars>>
    ELSE /\ pressedKeys' = pressedKeys \cup {key}
         /\ KeyboardPlayNote(CHOOSE n \in FindNote(key) : TRUE)

\* what handleKeyDown does with e.key = key
KeyDownOutcome(key) ==
    IF key \in pressedKeys THEN "pressed"
    ELSE IF FindNote(key) = {} THEN "unmapped"
    ELSE IF activeNote = (CHOOSE n \in FindNote(key) : TRUE).note THEN "active"
    ELSE "noteOn"

\* a variant of handleKeyUp that releases the note only when the key that
\* went up is the key of the active note
handleKeyUpOfActiveNote(key) ==
    IF FindNote(key) = {}
    THEN UNCHANGED <<pressedKeys, activeNote, synthVars>>
    ELSE /\ pressedKeys' = pressedKeys \ {key}
         /\ IF activeNote = (CHOOSE n \in FindNote(key) : TRUE).note
            THEN KeyboardStopNote
            ELSE UNCHANGED <<activeNote, synthVars>>

\* handleKeyUp, lines 506-516, for an event with e.key = key
handleKeyUp(key) ==
    IF FindNote(key) = {}
    THEN UNCHANGED <<pressedKeys, activeNote, synthVars>>
    ELSE /\ pressedKeys' = pressedKeys \ {key}
         /\ KeyboardStopNote

\* the user presses key k: a keydown event
KeyDown(k) ==
    /\ k \notin held
    /\ held' = held \cup {k}
    /\ handleKeyDown(EventKey(k, shift))
    /\ lastOp' = Op("keydown", KeyDownOutcome(EventKey(k, shift)), EventKey(k, shift))
    /\ UNCHANGED <<shift, impulse, params, presetName, now, presets, nextId, edits>>

\* key k is held down: the keyboard repeats its keydown event
KeyRepeat(k) ==
    /\ k \in held
    /\ handleKeyDown(EventKey(k, shift))
    /\ lastOp' = Op("keyrepeat", KeyDownOutcome(EventKey(k, shift)), EventKey(k, shift))
    /\ UNCHANGED <<held, shift, impulse, params, presetName, now, presets, nextId, edits>>

\* the user lets go of key k: a keyup event
KeyUp(k) ==
    /\ k \in held
    /\ held' = held \ {k}
    /\ handleKeyUp(EventKey(k, shift))
    /\ lastOp' = Op("keyup", IF FindNote(EventKey(k, shift)) = {} THEN "unmapped" ELSE "noteOff",
                    EventKey(k, shift))
    /\ UNCHANGED <<shift, impulse, params, presetName, now, presets, nextId, edits>>

\* Shift or CapsLock changes; its own key event maps to no note (lines 500, 508)
ToggleShift ==
    /\ shift' = ~shift
    /\ lastOp' = Op("shift", "ok", 0)
    /\ UNCHANGED <<pressedKeys, activeNote, held, synthVars, impulse, params,
                   presetName, now, presets, nextId, edits>>

\* onMouseDown of the button of note, lines 540 and 564
MouseDown(note) ==
    /\ KeyboardPlayNote(note)
    /\ lastOp' = Op("mousedown", IF activeNote = note.note THEN "active" ELSE "noteOn", note.note)
    /\ UNCHANGED <<pressedKeys, held, shift, impulse, params, presetName, now,
                   presets, nextId, edits>>

\* onMouseUp of a key button, lines 541 and 565
MouseUp ==
    /\ KeyboardStopNote
    /\ lastOp' = Op("mouseup", "noteOff", 0)
    /\ UNCHANGED <<pressedKeys, held, shift, impulse, params, presetName, now,
                   presets, nextId, edits>>

\* onMouseLeave of a key button, lines 542 and 566
MouseLeave ==
    /\ KeyboardStopNote
    /\ lastOp' = Op("mouseleave", "noteOff", 0)
    /\ UNCHANGED <<pressedKeys, held, shift, impulse, params, presetName, now,
                   presets, nextId, edits>>

KeyboardInit == Mounted(<<>>)

KeyboardNext ==
    \/ \E k \in PhysicalKeys : KeyDown(k)
    \/ \E k \in PhysicalKeys : KeyRepeat(k)
    \/ \E k \in PhysicalKeys : KeyUp(k)
    \/ ToggleShift
    \/ \E note \in Notes : MouseDown(note)
    \/ MouseUp
    \/ MouseLeave

KeyboardSpec == KeyboardInit /\ [][KeyboardNext]_vars

(***************************************************************************)
(* Properties                                                              *)
(***************************************************************************)
\* the declared ranges of a ParameterSet (spec section 3), in hundredths
InRange(P) ==
    /\ P.oscillator.type \in OscillatorTypes
    /\ P.oscillator.detune >= -10000 /\ P.oscillator.detune <= 10000
    /\ P.filter.type \in FilterTypes
    /\ P.filter.frequency >= 2000 /\ P.filter.frequency <= 2000000
    /\ P.filter.Q >= 10 /\ P.filter.Q <= 3000
    /\ P.envelope.attack > 0 /\ P.envelope.attack <= 200
    /\ P.envelope.decay > 0 /\ P.envelope.decay <= 200
    /\ P.envelope.release > 0 /\ P.envelope.release <= 300
    /\ P.envelope.sustain >= 0 /\ P.envelope.sustain <= 100
    /\ P.effects.reverb >= 0 /\ P.effects.reverb <= 100
    /\ P.effects.delay >= 0 /\ P.effects.delay <= 100
    /\ P.effects.distortion >= 0 /\ P.effects.distortion <= 100
    /\ P.volume >= 0 /\ P.volume <= 100

VoiceIds == DOMAIN voices

\* the attack/decay/sustain contour of spec section 4.3 for a note-on at t0
\* with parameter set P, at time t >= t0
Contour(P, t0, t) ==
    LET a   == P.envelope.attack
        d   == P.envelope.decay
        top == 100 * P.volume
        sus == P.volume * P.envelope.sustain
    IN  IF t < t0 + a THEN (top * (t - t0)) \div a
        ELSE IF t < t0 + a + d THEN top + ((sus - top) * (t - t0 - a)) \div d
        ELSE sus

\* the time of the noteOff that released v: the release ramp's start
ReleasedAt(v) ==
    v.gain[Len(v.gain) - 1].time

\* C1: at every instant at most one voice is sounding (oscillator started
\* and not yet stopped); a noteOn hard-stops the earlier voice at once.
C1_AtMostOneSounding ==
    Cardinality({i \in VoiceIds : Sounding(voices[i], now)}) <= 1

\* C2: at most one voice graph is wired to the output; the stages of every
\* earlier voice are disconnected by the time the new voice is wired in.
C2_OneGraphWired ==
    /\ Cardinality({i \in VoiceIds : Wired(voices[i])}) <= 1
    /\ \A i \in VoiceIds : Wired(voices[i]) => i = Len(voices)

\* C3: a noteOff at t1 on a voice that is Attacking, Decaying or Sustaining
\* cancels the pending ramps, starts the release ramp at t1 from the gain the
\* voice has at t1 according to its envelope, ramps linearly to 0 at
\* t1 + release and stops the oscillator at exactly t1 + release.
C3_ReleaseFromCurrentGain ==
    [][(lastOp'.op = "stopNote" /\ oscillatorRef # Null)
        => LET v  == voices[oscillatorRef]
               w  == voices'[oscillatorRef]
               n  == Len(w.gain)
               t1 == now
           IN  /\ n >= 2
               /\ w.gain[n - 1] = [type |-> "set",
                                   value |-> Contour(v.snapshot, v.started[1], t1),
                                   time |-> t1]
               /\ w.gain[n] = [type |-> "ramp", value |-> 0,
                               time |-> t1 + params.envelope.release]
               /\ \A j \in 1..(n - 2) : w.gain[j].time < t1
               /\ w.stop = <<t1 + params.envelope.release>>]_vars

\* C5: everything about an in-flight voice, including the release duration
\* applied at its noteOff and the time its oscillator stops, is determined
\* by the parameter snapshot taken at its noteOn.
C5_ReleaseFromSnapshot ==
    \A i \in VoiceIds :
        voices[i].stop # <<>>
            => voices[i].stop[1] = ReleasedAt(voices[i]) + voices[i].snapshot.envelope.release

\* C4: for a noteOn at t0 the gain breakpoints are exactly 0 at t0, volume at
\* t0 + attack and volume*sustain at t0 + attack + decay, linear in between,
\* and the gain then stays at volume*sustain until noteOff.
C4_EnvelopeBreakpoints ==
    oscillatorRef # Null
        => LET v  == voices[oscillatorRef]
               P  == v.snapshot
               t0 == v.started[1]
           IN  /\ v.gain = << [type |-> "set",  value |-> 0, time |-> t0],
                              [type |-> "ramp", value |-> 100 * P.volume,
                               time |-> t0 + P.envelope.attack],
                              [type |-> "ramp", value |-> P.volume * P.envelope.sustain,
                               time |-> t0 + P.envelope.attack + P.envelope.decay] >>
               /\ ScheduledGain(v, now) = Contour(P, t0, now)

\* a voice is Sustaining at a level strictly between 0 and its volume
C4_Witness ==
    /\ oscillatorRef # Null
    /\ LET v == voices[oscillatorRef]
           P == v.snapshot
       IN  /\ now >= v.started[1] + P.envelope.attack + P.envelope.decay
           /\ ScheduledGain(v, now) = P.volume * P.envelope.sustain
           /\ 0 < P.volume * P.envelope.sustain
           /\ P.volume * P.envelope.sustain < 100 * P.volume

\* C6: an operation that is handed a field value outside its declared range
\* fails with a ValidationError and leaves the stored ParameterSet unchanged.
C6_ValidationRejects ==
    [][(lastOp'.op = "loadPreset"
        /\ ~InRange(loadPresetParams(DbGet(lastOp'.arg)[1])))
        => (params' = params /\ lastOp'.result = "ValidationError")]_vars

\* C7: in every reachable state the stored ParameterSet is within its
\* declared ranges.
C7_ParamsInRange ==
    InRange(params)

\* C8: with an in-range ParameterSet P stored, noteOn(f) builds and starts a
\* voice whose oscillator waveform and detune and whose filter type, cutoff
\* and Q are those of P, and whose oscillator frequency is f.
C8_VoiceMatchesParams ==
    (lastOp.op = "playNote" /\ lastOp.result = "ok" /\ InRange(params))
        => /\ oscillatorRef # Null
           /\ LET v == voices[oscillatorRef]
              IN  /\ v.started = <<now>>
                  /\ v.oscillator.type = params.oscillator.type
                  /\ v.oscillator.detune = params.oscillator.detune
                  /\ v.oscillator.frequency = lastOp.arg
                  /\ v.filter.type = params.filter.type
                  /\ v.filter.frequency = params.filter.frequency
                  /\ v.filter.Q = params.filter.Q

\* a preset was loaded (setParameters) and the next noteOn used a frequency
\* other than the stored oscillator.frequency
C8_Witness ==
    /\ lastOp.op = "playNote" /\ lastOp.result = "ok"
    /\ params = SavedParams
    /\ lastOp.arg # params.oscillator.frequency
    /\ voices[oscillatorRef].oscillator.type = "square"

\* C9: noteOff issued when no voice is active schedules nothing and leaves
\* the voice references and the playing flag unchanged.
C9_IdleNoteOffIsNoOp ==
    [][(lastOp'.op = "stopNote" /\ (oscillatorRef = Null \/ gainNodeRef = Null))
        => /\ voices' = voices
           /\ oscillatorRef' = oscillatorRef
           /\ gainNodeRef' = gainNodeRef
           /\ filterNodeRef' = filterNodeRef
           /\ isPlaying' = isPlaying
           /\ params' = params]_vars

\* a second noteOff, after the clock has moved, on a voice an earlier noteOff
\* released
C9_Witness ==
    /\ lastOp = Op("stopNote", "noop", 0)
    /\ oscillatorRef = Null
    /\ \E i \in VoiceIds : voices[i].stop # <<>> /\ ReleasedAt(voices[i]) < now

\* C10: when a noteOn fails during graph construction the controller is Idle
\* afterwards, no partially built graph is connected to the output, and a
\* subsequent noteOn is not blocked.
C10_FailedNoteOnLeavesIdle ==
    /\ (lastOp.op = "playNote" /\ lastOp.result = "error")
          => /\ oscillatorRef = Null
             /\ gainNodeRef = Null
             /\ filterNodeRef = Null
             /\ ~isPlaying
             /\ ~Wired(voices[Len(voices)])
             /\ (Len(voices) < MaxVoices => ENABLED (\E f \in Frequencies : PlayNote(f)))
    /\ \A i \in VoiceIds :
          Wired(voices[i])
             => /\ voices[i].started # <<>>
                /\ voices[i].edges
                     = {ConnectList(voices[i].snapshot)[j] :
                           j \in 1..Len(ConnectList(voices[i].snapshot))}

\* a noteOn failed with part of its graph connected, and the next noteOn
\* built and started a voice
C10_Witness ==
    /\ Len(voices) = 2
    /\ voices[1].started = <<>>
    /\ voices[1].edges # {}
    /\ voices[2].started # <<>>
    /\ Wired(voices[2])
    /\ oscillatorRef = 2
    /\ isPlaying

\* the documents of the table that belong to u
OwnedBy(u) ==
    {presets[i] : i \in {j \in DOMAIN presets : presets[j].userId = u}}

\* the documents a sequence holds
Range(docs) ==
    {docs[i] : i \in DOMAIN docs}

\* C11: delete(requester, recordId) removes the record only if it exists and
\* belongs to the requester; otherwise it fails with NotFoundOrUnauthorized,
\* the same error for a missing record and for another owner's record, and
\* the table is unchanged.
C11_DeleteOwnRecordOnly ==
    [][(lastOp'.op = "deletePreset" /\ lastOp'.user # NoUser)
        => LET u  == lastOp'.user
               id == lastOp'.arg
           IN  IF \E d \in OwnedBy(u) : d._id = id
               THEN /\ lastOp'.result = "ok"
                    /\ presets' = SelectSeq(presets, LAMBDA d : d._id # id)
                    /\ \A d \in Range(presets') : d._id # id
               ELSE /\ lastOp'.result = "NotFoundOrUnauthorized"
                    /\ presets' = presets]_vars

\* a user asked to delete a record of another user, and the record is there
C11_Witness ==
    /\ lastOp.op = "deletePreset"
    /\ lastOp.result = "NotFoundOrUnauthorized"
    /\ \E d \in Range(presets) : d._id = lastOp.arg /\ d.userId # lastOp.user

\* C12: list(owner) returns exactly the stored records of owner, each once,
\* and the empty sequence for an unauthenticated requester; a save or delete
\* by another user leaves a user's listing as it was.
C12_ListOwnRecords ==
    [][/\ getPresets(NoUser)' = <<>>
       /\ \A u \in Users :
             /\ Range(getPresets(u))' = OwnedBy(u)'
             /\ Len(getPresets(u))' = Cardinality(OwnedBy(u))'
             /\ (lastOp'.op \in {"savePreset", "deletePreset"} /\ lastOp'.user # u)
                   => getPresets(u)' = getPresets(u)]_vars

\* both users hold a record, and one of them was the last to save
C12_Witness ==
    /\ lastOp.op = "savePreset"
    /\ lastOp.result = "ok"
    /\ \A u \in Users : getPresets(u) # <<>>

\* C13: save(owner, name, P) followed by list(owner) returns a record with
\* the saved name whose oscillator, filter, envelope, effects and volume are
\* those of P, and loading that record stores P.
C13_SaveListLoadRoundTrip ==
    [][/\ \A u \in Users, n \in Names, P \in ForeignParams \cup {SavedParams, params} :
             (SavePreset(u, n, P) \/ (HandleSavePreset /\ u = UIUser /\ n = presetName
                                         /\ P = params /\ lastOp'.op = "savePreset"))
                => \E d \in Range(getPresets(u))' :
                      /\ d._id = lastOp'.arg
                      /\ d.name = n
                      /\ d.oscillator = P.oscillator
                      /\ d.filter = P.filter
                      /\ d.envelope = P.envelope
                      /\ d.effects = P.effects
                      /\ d.volume = P.volume
                      /\ loadPresetParams(d) = P
       /\ lastOp'.op = "loadPreset"
             => \E d \in Range(getPresets(UIUser)) :
                   /\ d._id = lastOp'.arg
                   /\ params'.oscillator = d.oscillator
                   /\ params'.filter = d.filter
                   /\ params'.envelope = d.envelope
                   /\ params'.effects = d.effects
                   /\ params'.volume = d.volume]_vars

\* the page saved parameters other than the defaults under a name, and the
\* listing holds them
C13_Witness ==
    /\ lastOp.op = "savePreset"
    /\ lastOp.result = "ok"
    /\ lastOp.user = UIUser
    /\ presetName = <<>>
    /\ params # defaultParams
    /\ \E d \in Range(getPresets(UIUser)) :
          d._id = lastOp.arg /\ d.name = <<"a">> /\ loadPresetParams(d) = params

\* C14: save and delete without an authenticated identity fail with
\* AuthRequired and insert or remove nothing.
C14_AuthRequired ==
    [][(lastOp'.op \in {"savePreset", "deletePreset"} /\ lastOp'.user = NoUser)
        => /\ lastOp'.result = "AuthRequired"
           /\ presets' = presets
           /\ nextId' = nextId]_vars

\* an unauthenticated caller asked to delete a record that is there
C14_Witness ==
    /\ lastOp.op = "deletePreset"
    /\ lastOp.user = NoUser
    /\ lastOp.result = "AuthRequired"
    /\ \E d \in Range(presets) : d._id = lastOp.arg

\* C17: every stored preset record has a non-empty name; a save with an empty
\* name creates no record, whoever calls the save operation.
C17_StoredNamesNonEmpty ==
    \A d \in Range(presets) : d.name # <<>>

\* the voices whose graph playNote built to the end
BuiltVoices ==
    {i \in VoiceIds : voices[i].started # <<>>}

ReverbSend == { <<"gain", "reverb">>, <<"reverb", "master">> }
DelaySend == { <<"gain", "delay">>, <<"delay", "delayGain">>,
               <<"delayGain", "delay">>, <<"delayGain", "master">> }

\* C15: a graph built with distortion amount 0 has no distortion stage on the
\* path (filter -> gain directly); a graph built with distortion amount > 0
\* has filter -> distortion -> gain and no direct filter -> gain edge.
C15_DistortionBypass ==
    \A i \in BuiltVoices :
        LET v == voices[i]
        IN  IF v.snapshot.effects.distortion > 0
            THEN /\ <<"filter", "distortion">> \in v.edges
                 /\ <<"distortion", "gain">> \in v.edges
                 /\ <<"filter", "gain">> \notin v.edges
            ELSE /\ <<"filter", "gain">> \in v.edges
                 /\ \A e \in v.edges : e[1] # "distortion" /\ e[2] # "distortion"

\* a voice built without distortion and a voice built with it
C15_Witness ==
    /\ \E i \in BuiltVoices : voices[i].snapshot.effects.distortion = 0
    /\ \E i \in BuiltVoices :
          /\ voices[i].snapshot.effects.distortion > 0
          /\ <<"distortion", "gain">> \in voices[i].edges

\* C16: in a built graph the reverb send edges are present iff the reverb
\* amount is > 0, the delay send edges (with the feedback edge) are present
\* iff the delay amount is > 0, and the dry edge gain -> master is always
\* present.
C16_SendsIffAmountPositive ==
    \A i \in BuiltVoices :
        LET v == voices[i]
        IN  /\ <<"gain", "master">> \in v.edges
            /\ IF v.snapshot.effects.reverb > 0
               THEN ReverbSend \subseteq v.edges
               ELSE \A e \in v.edges : e[1] # "reverb" /\ e[2] # "reverb"
            /\ IF v.snapshot.effects.delay > 0
               THEN DelaySend \subseteq v.edges
               ELSE \A e \in v.edges : {e[1], e[2]} \cap {"delay", "delayGain"} = {}

\* a voice built with both sends and a voice built with neither
C16_Witness ==
    /\ \E i \in BuiltVoices :
          /\ voices[i].snapshot.effects.reverb > 0
          /\ voices[i].snapshot.effects.delay > 0
          /\ ReverbSend \cup DelaySend \subseteq voices[i].edges
    /\ \E i \in BuiltVoices :
          /\ voices[i].snapshot.effects.reverb = 0
          /\ voices[i].snapshot.effects.delay = 0

\* C18: there is a kill switch, an operation after which no voice is still
\* sounding, voices in their release tail included.  stopNote is the only
\* operation of the synthesizer that stops sound.
C18_StopSilencesAtOnce ==
    [][lastOp'.op = "stopNote"
        => \A i \in DOMAIN voices' : ~Sounding(voices'[i], now')]_vars

\* C19: the envelope (1 - i/length)^(reverbAmount*10) decays more slowly for
\* a higher reverb amount: for r1 < r2 and every sample index i the envelope
\* at i for r2 is >= the envelope at i for r1.
C19_HigherReverbDecaysSlower ==
    impulse # NoImpulse
        => \A r2 \in ReverbAmounts :
              r2 * 10 > impulse.decay
                 => \A i \in 0..(impulse.length - 1) :
                       EnvelopeNum(i, impulse.length, r2 * 10)
                             * Pow(impulse.length, impulse.decay \div 100)
                          >= EnvelopeNum(i, impulse.length, impulse.decay)
                             * Pow(impulse.length, (r2 * 10) \div 100)

\* C20: for every reverb amount of [0,1], 0 included, every sample is within
\* the bound (1 - i/length)^decay, and the bound at i + 1 is strictly below
\* the bound at i.
C20_BoundStrictlyDecreasing ==
    impulse # NoImpulse
        => /\ \A c \in 1..2, j \in 1..impulse.length :
                 LET x == impulse.channels[c][j]
                 IN  (IF x < 0 THEN -x ELSE x)
                        <= 2 * EnvelopeNum(j - 1, impulse.length, impulse.decay)
           /\ \A i \in 0..(impulse.length - 2) :
                 EnvelopeNum(i + 1, impulse.length, impulse.decay)
                    < EnvelopeNum(i, impulse.length, impulse.decay)

\* C21: the oscillator, gain and filter references are all null or all refer
\* to the most recently built voice, and the playing flag is true exactly
\* when they are not null.
C21_RefsAgree ==
    /\ oscillatorRef = gainNodeRef
    /\ gainNodeRef = filterNodeRef
    /\ oscillatorRef # Null
          => /\ oscillatorRef \in BuiltVoices
             /\ \A i \in BuiltVoices : i <= oscillatorRef
    /\ isPlaying <=> oscillatorRef # Null

\* the references point to the second voice built, after the first was
\* released by a noteOff
C21_Witness ==
    /\ oscillatorRef = 2
    /\ isPlaying
    /\ 1 \in BuiltVoices
    /\ voices[1].stop # <<>>
    /\ ReleasedAt(voices[1]) < voices[2].built

\* the last value the clock takes
LastTick ==
    (MaxTime \div TickStep) * TickStep

\* the started voices the controller holds no reference to
Dropped ==
    {i \in BuiltVoices : i # oscillatorRef}

\* C22: no started oscillator is orphaned: when the controller drops its
\* reference to a voice (noteOff, or the stop-before-start step of noteOn) a
\* stop of that voice's oscillator has been scheduled at now + release, and
\* every dropped voice eventually becomes silent.
C22_NoOrphanedOscillator ==
    /\ [][/\ (oscillatorRef # Null /\ oscillatorRef' # oscillatorRef)
               => voices'[oscillatorRef].stop = <<now + params.envelope.release>>
          /\ \A i \in Dropped' :
                /\ voices'[i].stop # <<>>
                /\ voices'[i].stop[1] >= voices'[i].started[1]
                /\ i \in Dropped => voices'[i].stop = voices[i].stop]_vars
    /\ \A i \in 1..MaxVoices :
          (i \in Dropped /\ voices[i].stop[1] <= LastTick)
             ~> (i \in Dropped /\ ~Sounding(voices[i], now))

\* a voice preempted by a noteOn has stopped sounding while the voice that
\* preempted it still sounds
C22_Witness ==
    /\ oscillatorRef = 2
    /\ 1 \in Dropped
    /\ ReleasedAt(voices[1]) = voices[2].built
    /\ voices[1].stop[1] > voices[1].started[1]
    /\ ~Sounding(voices[1], now)
    /\ Sounding(voices[2], now)

\* the keys the notes table maps
MappedKeys ==
    {n.key : n \in Notes}

\* C23: the key-up of any mapped key, and mouse-up or mouse-leave on a key
\* button, issues noteOff and clears the active note whichever key started
\* the sounding note; the repeated key-down of a key still held does not
\* restart it.
C23_AnyKeyUpReleases ==
    [][/\ (\/ (lastOp'.op = "keyup" /\ toLowerCase(lastOp'.arg) \in MappedKeys)
           \/ lastOp'.op \in {"mouseup", "mouseleave"})
             => /\ activeNote' = NoNote
                /\ voices' = AfterStopNote
                /\ oscillatorRef' = Null
                /\ ~isPlaying'
                /\ oscillatorRef # Null
                      => voices'[oscillatorRef].stop = <<now + params.envelope.release>>
       /\ (lastOp'.op = "keyrepeat" /\ lastOp'.arg \in pressedKeys)
             => UNCHANGED <<activeNote, pressedKeys, synthVars>>]_vars

\* with both mapped keys held and the second one's note sounding, the first
\* key went up; the second is still held, its note is released and its
\* repeated key-down has been ignored
C23_Witness ==
    /\ lastOp = Op("keyrepeat", "pressed", "s")
    /\ held = {"s"}
    /\ pressedKeys = {"s"}
    /\ activeNote = NoNote
    /\ oscillatorRef = Null
    /\ Len(voices) = 2
    /\ voices[2].oscillator.frequency = 29366
    /\ voices[2].stop # <<>>

\* C24: pressedKeys holds exactly the mapped keys that are physically held,
\* so the key-down of a mapped key that was not held issues noteOn unless its
\* note is the active note; also when the key reports another letter case in
\* its key-up than in its key-down.
C24_PressedKeysAreHeldKeys ==
    /\ \A k \in MappedKeys :
          k \in held <=> \E x \in pressedKeys : toLowerCase(x) = k
    /\ (lastOp.op = "keydown" /\ toLowerCase(lastOp.arg) \in MappedKeys)
          => lastOp.result \in {"noteOn", "active"}

====
